---- MODULE Spec2Model ----
(***************************************************************************)
(* nativescript-tasks: the Task state machine of plugin/index.ts (and its  *)
(* compiled build plugin/index.js), the promise every start() call         *)
(* returns, and the Worker channels the calls create.                      *)
(*                                                                         *)
(* JavaScript runs every handler to completion on one thread: `frame` is   *)
(* the handler that is executing (a start() call, or a worker's onmessage  *)
(* or onerror callback) together with its program counter.  While a frame  *)
(* is open, its next statement is the only enabled step.                   *)
(***************************************************************************)
EXTENDS Integers, Sequences, FiniteSets, TLC

(* ------------------------------ bounds -------------------------------- *)
NumTasks == 1        \* Task objects the application may construct
MaxCalls == 2        \* start() calls made in one behaviour
MaxEvents == 2       \* events one worker emits when it is left running
MaxParams == 2       \* parameters a function under decomposition declares

Tasks == 1..NumTasks

(* --------------------------- JavaScript values ------------------------ *)
\* One record shape for every value, so that any two can be compared (===).
Val(t, n, s) == [t |-> t, n |-> n, s |-> s]
Undefined == Val("undefined", 0, "")
Null == Val("null", 0, "")
Num(i) == Val("number", i, "")
Str(x) == Val("string", 0, x)
\* new Error(msg) / a thrown TypeError: an object, distinct for every call c
ErrorObj(msg, c) == Val("error", c, msg)
\* a function value; n indexes its source text in FuncSources
Func(i) == Val("function", i, "")
\* the text JSON.stringify yields for a number or null
Text(kind, i) == Val("json", i, kind)

\* ToBoolean, as `if (x)` applies it
Truthy(v) ==
    CASE v.t = "undefined" -> FALSE
      [] v.t = "null" -> FALSE
      [] v.t = "number" -> v.n # 0
      [] v.t = "string" -> v.s # ""
      [] OTHER -> TRUE

\* TypeUtils.isNullOrUndefined
isNullOrUndefined(v) == v.t \in {"undefined", "null"}

\* JSON.stringify of a result value: undefined has no JSON text
JSONstringify(v) ==
    CASE v.t = "undefined" -> Undefined
      [] v.t = "null" -> Text("null", 0)
      [] OTHER -> Text("number", v.n)

\* JSON.parse throws a SyntaxError on anything that is not JSON text
JSONparseThrows(p) == p.t # "json"
\* a parse that hands back the text it was given
JSONparseNot(p) == p

JSONparse(p) == IF p.s = "null" THEN Null ELSE Num(p.n)

(* ------------------------------ TaskStatus ---------------------------- *)
Created == "Created"
Faulted == "Faulted"
RanToCompletion == "RanToCompletion"
Running == "Running"
WaitingToRun == "WaitingToRun"
TaskStatus == {Created, Faulted, RanToCompletion, Running, WaitingToRun}
\* the value of _status before the constructor has assigned it
NoStatus == "undefined"

(* --------------------------- function sources ------------------------- *)
\* '' + me._FUNC, as a sequence of lexical tokens:
\*   1  the ES5 function literal of the demo, 1000 + 200 * ctx.state + 7
\*   2  an arrow function, whose text has no `function` keyword
\*   3  a function without parameters
\*   4  a function that throws a string
\*   5  a function that throws the empty string
\*   6  a function that returns no data
FuncSources ==
    << <<"function", " ", "(", "ctx", ")", " ", "{", "return", " ", "1000",
         "+", "200", "*", "ctx", ".state", "+", "7", ";", "}">>,
       <<"(", "ctx", ")", " ", "=>", " ", "{", "return", " ", "ctx", ".state",
         ";", "}">>,
       <<"function", " ", "(", ")", " ", "{", "return", " ", "42", ";", "}">>,
       <<"function", " ", "(", "ctx", ")", " ", "{", "throw", " ", "'boom'",
         ";", "}">>,
       <<"function", " ", "(", "ctx", ")", " ", "{", "throw", " ", "''", ";",
         "}">>,
       <<"function", " ", "(", "ctx", ")", " ", "{", "}">> >>

\* the index of the first "{" of src after position i (0: none)
FirstBrace(src, i) ==
    LET js == {j \in (i + 1)..Len(src) : src[j] = "{"}
    IN IF js = {} THEN 0 ELSE CHOOSE j \in js : \A k \in js : j <= k

\* positions at which /function[^{]+\{([\s\S]*)\}$/ can start to match
MatchStarts(src) ==
    {i \in 1..Len(src) :
        /\ src[i] = "function"
        /\ FirstBrace(src, i) >= i + 2
        /\ src[Len(src)] = "}"}

\* funcStr.match(...) === null
MatchFails(src) == MatchStarts(src) = {}

\* funcStr.match(...)[1]: the text between the first "{" after the header
\* and the final "}"
MatchBody(src) ==
    LET i == CHOOSE i \in MatchStarts(src) : \A k \in MatchStarts(src) : i <= k
    IN SubSeq(src, FirstBrace(src, i) + 1, Len(src) - 1)

\* .replace(/[/][/].*$/mg, ''): drop every "//" and what follows it on its line
RECURSIVE StripLineComments(_, _)
StripLineComments(src, inComment) ==
    IF src = <<>> THEN <<>>
    ELSE IF inComment
      THEN IF Head(src) = "\n"
             THEN <<"\n">> \o StripLineComments(Tail(src), FALSE)
             ELSE StripLineComments(Tail(src), TRUE)
      ELSE IF Head(src) = "//"
             THEN StripLineComments(Tail(src), TRUE)
             ELSE <<Head(src)>> \o StripLineComments(Tail(src), FALSE)

\* .replace(/\s+/g, '')
StripWhiteSpace(src) == SelectSeq(src, LAMBDA x : x \notin {" ", "\n", "\t"})

\* tokens holding a "/" or a "*", which [^/*]* cannot cross
SlashStar == {"/", "*", "/*", "*/", "//"}

\* the first token of SlashStar in src after position i (0: none)
FirstSlashStar(src, i) ==
    LET js == {j \in (i + 1)..Len(src) : src[j] \in SlashStar}
    IN IF js = {} THEN 0 ELSE CHOOSE j \in js : \A k \in js : j <= k

\* .replace(/[/][*][^/*]*[*][/]/g, '')
RECURSIVE StripBlockComments(_)
StripBlockComments(src) ==
    IF src = <<>> THEN <<>>
    ELSE LET j == FirstSlashStar(src, 1)
         IN IF Head(src) = "/*" /\ j > 0 /\ src[IF j > 0 THEN j ELSE 1] = "*/"
              THEN StripBlockComments(SubSeq(src, j + 1, Len(src)))
              ELSE <<Head(src)>> \o StripBlockComments(Tail(src))

\* .split('){', 1)[0]: what precedes the first "){" (everything, without one)
BeforeBody(src) ==
    LET is == {i \in 1..(Len(src) - 1) : src[i] = ")" /\ src[i + 1] = "{"}
    IN IF is = {} THEN src
       ELSE SubSeq(src, 1, (CHOOSE i \in is : \A k \in is : i <= k) - 1)

\* .replace(/^[^(]*[(]/, ''): drop everything through the first "("
AfterParen(src) ==
    LET is == {i \in 1..Len(src) : src[i] = "("}
    IN IF is = {} THEN src
       ELSE SubSeq(src, (CHOOSE i \in is : \A k \in is : i <= k) + 1, Len(src))

\* .replace(/=[^,]+/g, ''): drop every "=" with what follows it up to a ","
RECURSIVE StripDefaults(_, _)
StripDefaults(src, inDefault) ==
    IF src = <<>> THEN <<>>
    ELSE IF inDefault
      THEN IF Head(src) = ","
             THEN <<",">> \o StripDefaults(Tail(src), FALSE)
             ELSE StripDefaults(Tail(src), TRUE)
      ELSE IF \/ Head(src) = "=>"
              \/ Head(src) = "=" /\ Len(src) > 1 /\ src[IF Len(src) > 1 THEN 2 ELSE 1] # ","
             THEN StripDefaults(Tail(src), TRUE)
             ELSE <<Head(src)>> \o StripDefaults(Tail(src), FALSE)

\* .split(','): the pieces between the commas, each the text of its tokens
RECURSIVE SplitCommas(_, _)
SplitCommas(src, piece) ==
    IF src = <<>> THEN <<piece>>
    ELSE IF Head(src) = ","
      THEN <<piece>> \o SplitCommas(Tail(src), "")
      ELSE SplitCommas(Tail(src), piece \o Head(src))

\* the chain without its final .filter(x => x)
ParamNamesUnfiltered(src) ==
    SplitCommas(
        StripDefaults(
            AfterParen(BeforeBody(StripBlockComments(StripWhiteSpace(
                StripLineComments(src, FALSE))))),
            FALSE),
        "")

\* func.args: the whole chain, ending in .filter(x => x)
ParamNames(src) ==
    SelectSeq(
        SplitCommas(
            StripDefaults(
                AfterParen(BeforeBody(StripBlockComments(StripWhiteSpace(
                    StripLineComments(src, FALSE))))),
                FALSE),
            ""),
        LAMBDA x : x # "")

(* ------------------ the task function, run by the worker -------------- *)
\* the number a numeric literal denotes (-1: the token is not one)
Numeral(tok) ==
    CASE tok = "1000" -> 1000
      [] tok = "200" -> 200
      [] tok = "42" -> 42
      [] tok = "7" -> 7
      [] tok = "1" -> 1
      [] OTHER -> -1

\* the string a string literal denotes
StringLits == {"'boom'", "''"}
StringLit(tok) == IF tok = "'boom'" THEN Str("boom") ELSE Str("")

\* what running the function ended with: a returned value or a thrown one
Result(v) == [kind |-> "result", value |-> v]
Threw(v) == [kind |-> "error", value |-> v]
ReferenceError == Val("error", 0, "ReferenceError")
SyntaxError == Val("error", 0, "SyntaxError")

\* a sum of products of numeric literals and <parameter>.state, read left to
\* right: acc is the sum so far, prod the product being built.  A name that
\* is not the first parameter is not bound to the context.
RECURSIVE EvalSum(_, _, _, _, _)
EvalSum(toks, args, state, acc, prod) ==
    IF toks = <<>> THEN Result(Num(acc + prod))
    ELSE IF Head(toks) = "+"
      THEN EvalSum(Tail(toks), args, state, acc + prod, 1)
    ELSE IF Head(toks) = "*"
      THEN EvalSum(Tail(toks), args, state, acc, prod)
    ELSE IF Numeral(Head(toks)) >= 0
      THEN EvalSum(Tail(toks), args, state, acc, prod * Numeral(Head(toks)))
    ELSE IF Len(toks) >= 2 /\ toks[IF Len(toks) >= 2 THEN 2 ELSE 1] = ".state"
      THEN IF args # <<>> /\ args[IF args # <<>> THEN 1 ELSE 0] = Head(toks)
             THEN IF state.t = "number"
                    THEN EvalSum(SubSeq(toks, 3, Len(toks)), args, state,
                                 acc, prod * state.n)
                    ELSE Result(Null)
             ELSE Threw(ReferenceError)
      ELSE Threw(ReferenceError)

\* new Function(...args, body)({state}): the body is empty, one `return`
\* or one `throw`
Call(func, state) ==
    LET stmts == StripWhiteSpace(func.body)
        n == Len(stmts)
    IN IF n = 0 THEN Result(Undefined)
       ELSE IF stmts[n] # ";" THEN Threw(SyntaxError)
       ELSE IF Head(stmts) = "return"
         THEN IF n = 2 THEN Result(Undefined)
              ELSE EvalSum(SubSeq(stmts, 2, n - 1), func.args, state, 0, 1)
       ELSE IF Head(stmts) = "throw" /\ n = 3 /\ stmts[IF n = 3 THEN 2 ELSE 1] \in StringLits
         THEN Threw(StringLit(stmts[2]))
       ELSE Threw(SyntaxError)

\* the worker script on a message {func, state}: without a function there is
\* nothing to run and no data
Run(msg) ==
    IF msg.func.present THEN Call(msg.func, msg.state) ELSE Result(Undefined)

(* -------------------------------- state ------------------------------- *)
VARIABLES
    build,      \* "ts": plugin/index.ts; "js": the compiled plugin/index.js
    _FUNC,      \* Task._FUNC, per task
    _status,    \* Task._status, per task
    _error,     \* Task._error, per task
    promises,   \* the promise of every start() call, in call order
    workers,    \* every Worker a start() call has constructed
    frame,      \* the handler that is executing, and where it is
    notified,   \* per Task: every notifyPropertyChange(name, value), in order
    ctor,       \* per Task slot: the `new Task(func)` evaluated for it
    dec         \* a function source under decomposition, stage by stage

vars == <<build, _FUNC, _status, _error, promises, workers, frame, notified,
          ctor, dec>>

\* `func` of start(): undefined, or {body, args}
NoFunc == [present |-> FALSE, body |-> <<>>, args |-> <<>>]

\* no `new Task(func)` was evaluated for a slot yet
NotCalled == [called |-> FALSE, arg |-> Undefined, threw |-> Undefined]

\* no source is under decomposition
NoDec == [pc |-> "none",
          decl |-> [decos |-> <<>>, gap |-> <<>>, body |-> <<>>],
          src |-> <<>>, text |-> <<>>, body |-> <<>>, args |-> <<>>]

Idle == [kind |-> "idle", pc |-> "", t |-> 0, c |-> 0, w |-> 0,
         err |-> Undefined, data |-> Undefined, func |-> NoFunc]

\* the states start() is called with: the 30 of the demo, and a falsy one
StateVals == {Num(0), Num(30)}
\* the values a task function may be constructed with
FuncVals ==
    {Undefined, Str("not a function")} \cup
    {Func(i) : i \in 1..Len(FuncSources)}
\* the messages a worker can be sent
Messages ==
    {[func |-> NoFunc, state |-> s] : s \in StateVals} \cup
    {[func |-> [present |-> TRUE, body |-> MatchBody(FuncSources[i]),
                args |-> ParamNames(FuncSources[i])],
      state |-> s] :
        i \in {j \in 1..Len(FuncSources) : ~MatchFails(FuncSources[j])},
        s \in StateVals}
\* what the worker script posts back on success
Payloads == {JSONstringify(Run(m).value) : m \in {x \in Messages : Run(x).kind = "result"}}
\* what a worker reports to onerror: the value the task function threw
ErrVals == {Run(m).value : m \in {x \in Messages : Run(x).kind = "error"}}

Init ==
    /\ build \in {"ts", "js"}
    /\ _FUNC = [t \in Tasks |-> Undefined]
    /\ _status = [t \in Tasks |-> NoStatus]
    /\ _error = [t \in Tasks |-> Undefined]
    /\ promises = <<>>
    /\ workers = <<>>
    /\ frame = Idle
    /\ notified = [t \in Tasks |-> <<>>]
    /\ ctor = [t \in Tasks |-> NotCalled]
    /\ dec = NoDec

(* ------------------------- Task: the two setters ---------------------- *)
\* an updateStatus that writes a field shared by every Task
updateStatusShared(t, newValue) ==
    IF newValue # _status[t]
      THEN [u \in DOMAIN _status |-> newValue] ELSE _status

\* updateStatus(newValue): the new value of _status
updateStatus(t, newValue) ==
    IF newValue # _status[t] THEN [_status EXCEPT ![t] = newValue] ELSE _status

\* updateError(newValue): the new value of _error
updateError(t, newValue) ==
    IF newValue # _error[t] THEN [_error EXCEPT ![t] = newValue] ELSE _error

\* this.notifyPropertyChange(name, newValue), as a record of `notified`
Notification(name, value) == [name |-> name, value |-> value]

\* an updateStatus that notifies on every write
statusChangeAlways(t, newValue) ==
    [notified EXCEPT ![t] = Append(@, Notification("status", Str(newValue)))]

\* updateStatus(newValue): the notifications of Task t after it
statusChange(t, newValue) ==
    IF newValue # _status[t]
      THEN [notified EXCEPT ![t] =
                Append(@, Notification("status", Str(newValue)))]
      ELSE notified

\* updateError(newValue): the notifications of Task t after it
errorChange(t, newValue) ==
    IF newValue # _error[t]
      THEN [notified EXCEPT ![t] = Append(@, Notification("error", newValue))]
      ELSE notified

(* ------------------------------ constructor --------------------------- *)
\* a constructor without the typeof check
NewTaskUnchecked(t, f) ==
    /\ frame.kind = "idle"
    /\ ~ctor[t].called
    /\ ctor' = [ctor EXCEPT ![t] =
                    [called |-> TRUE, arg |-> f, threw |-> Undefined]]
    /\ _FUNC' = [_FUNC EXCEPT ![t] = f]
    /\ _status' = updateStatus(t, Created)
    /\ notified' = statusChange(t, Created)
    /\ UNCHANGED <<build, _error, promises, workers, frame, dec>>

\* new Task(func) / newTask(func): throws on a func that is present and not
\* a function, before any field is assigned
NewTask(t, f) ==
    /\ frame.kind = "idle"
    /\ ~ctor[t].called
    /\ IF ~isNullOrUndefined(f) /\ f.t # "function"
          THEN /\ ctor' = [ctor EXCEPT ![t] =
                      [called |-> TRUE, arg |-> f,
                       threw |-> Str("'func' must be a function!")]]
               /\ UNCHANGED <<_FUNC, _status, notified>>
          ELSE /\ ctor' = [ctor EXCEPT ![t] =
                      [called |-> TRUE, arg |-> f, threw |-> Undefined]]
               /\ _FUNC' = [_FUNC EXCEPT ![t] = f]
               /\ _status' = updateStatus(t, Created)
               /\ notified' = statusChange(t, Created)
    /\ UNCHANGED <<build, _error, promises, workers, frame, dec>>

(* -------------------------------- start() ----------------------------- *)
\* resolve(v) / reject(v) on the promise of call c: only the first one settles
Settle(c, how, v) ==
    [promises EXCEPT ![c] =
        [@ EXCEPT !.settled = IF @ = "pending" THEN how ELSE @,
                  !.value = IF promises[c].settled = "pending" THEN v ELSE @,
                  !.completions = @ + 1]]

\* task.start(state): the promise is constructed and its executor entered
\* (`at` remembers the status the call found)
StartCall(t, s) ==
    /\ frame.kind = "idle"
    /\ _status[t] # NoStatus
    /\ Len(promises) < MaxCalls
    /\ promises' = Append(promises,
            [task |-> t, state |-> s, at |-> _status[t], settled |-> "pending",
             value |-> [data |-> Undefined, error |-> Undefined,
                        state |-> Undefined],
             completions |-> 0])
    /\ frame' = [Idle EXCEPT !.kind = "start", !.pc = "guard", !.t = t,
                             !.c = Len(promises) + 1]
    /\ UNCHANGED <<build, _FUNC, _status, _error, workers, notified, ctor, dec>>

\* a guard that lets a running Task start again
CanStartAlways(st) == st \in TaskStatus

\* a guard that lets a Task start only once
CanStartOnce(st) == st = Created

\* a guard that turns away only a Task that is WaitingToRun
CanStartUnlessWaiting(st) == st # WaitingToRun

\* switch (me._status): which statuses let start() proceed
CanStart(st) == st \in {Created, Faulted, RanToCompletion}

\* a guard that reports the conflict and, for want of a `return`, goes on
StartGuardFallsThrough ==
    /\ frame.kind = "start" /\ frame.pc = "guard"
    /\ frame' = [frame EXCEPT !.pc = "waiting"]
    /\ IF CanStart(_status[frame.t])
          THEN UNCHANGED <<promises, _error>>
          ELSE /\ promises' = [promises EXCEPT ![frame.c] =
                      [@ EXCEPT !.settled = "rejected",
                                !.value = [data |-> Undefined,
                                           error |-> ErrorObj(_status[frame.t], frame.c),
                                           state |-> promises[frame.c].state],
                                !.completions = @ + 1]]
               /\ _error' = [_error EXCEPT ![frame.t] =
                                ErrorObj(_status[frame.t], frame.c)]
    /\ UNCHANGED <<build, _FUNC, _status, workers, notified, ctor, dec>>

\* the switch: break, or completed(new Error("Cannot start while in ...")); return
StartGuard ==
    /\ frame.kind = "start" /\ frame.pc = "guard"
    /\ IF CanStart(_status[frame.t])
          THEN frame' = [frame EXCEPT !.pc = "waiting"]
          ELSE frame' = [frame EXCEPT !.pc = "rejected",
                            !.err = ErrorObj(_status[frame.t], frame.c)]
    /\ UNCHANGED <<build, _FUNC, _status, _error, promises, workers, notified, ctor, dec>>

\* me.updateStatus(TaskStatus.WaitingToRun)
StartWaiting ==
    /\ frame.kind = "start" /\ frame.pc = "waiting"
    /\ _status' = updateStatus(frame.t, WaitingToRun)
    /\ notified' = statusChange(frame.t, WaitingToRun)
    /\ frame' = [frame EXCEPT !.pc = "newWorker"]
    /\ UNCHANGED <<build, _FUNC, _error, promises, workers, ctor, dec>>

\* let worker = new Worker('./worker'), which may throw
StartNewWorker ==
    /\ frame.kind = "start" /\ frame.pc = "newWorker"
    /\ \/ /\ workers' = Append(workers,
                  [task |-> frame.t, call |-> frame.c, onmessage |-> FALSE,
                   onerror |-> FALSE, sent |-> FALSE,
                   msg |-> [func |-> NoFunc, state |-> Undefined],
                   delivered |-> 0, terminated |-> FALSE,
                   replied |-> "none", reply |-> Undefined, posts |-> 0])
          /\ frame' = [frame EXCEPT !.pc = "onmessage",
                                    !.w = Len(workers) + 1]
       \/ /\ frame' = [frame EXCEPT !.pc = "catch",
                            !.err = ErrorObj("Worker", frame.c)]
          /\ UNCHANGED workers
    /\ UNCHANGED <<build, _FUNC, _status, _error, promises, notified, ctor, dec>>

\* worker.onmessage = function(msg) {...}
StartSetOnMessage ==
    /\ frame.kind = "start" /\ frame.pc = "onmessage"
    /\ workers' = [workers EXCEPT ![frame.w].onmessage = TRUE]
    /\ frame' = [frame EXCEPT !.pc = "onerror"]
    /\ UNCHANGED <<build, _FUNC, _status, _error, promises, notified, ctor, dec>>

\* a start() that registers no onerror callback
StartSetOnErrorSkipped ==
    /\ frame.kind = "start" /\ frame.pc = "onerror"
    /\ frame' = [frame EXCEPT !.pc = "decompose"]
    /\ UNCHANGED <<build, _FUNC, _status, _error, promises, workers, notified, ctor, dec>>

\* worker.onerror = function(err) {...}
StartSetOnError ==
    /\ frame.kind = "start" /\ frame.pc = "onerror"
    /\ workers' = [workers EXCEPT ![frame.w].onerror = TRUE]
    /\ frame' = [frame EXCEPT !.pc = "decompose"]
    /\ UNCHANGED <<build, _FUNC, _status, _error, promises, notified, ctor, dec>>

\* a decomposition that takes a source without a match to have an empty body
StartDecomposeLenient ==
    /\ frame.kind = "start" /\ frame.pc = "decompose"
    /\ IF Truthy(_FUNC[frame.t])
          THEN LET funcStr == FuncSources[_FUNC[frame.t].n]
               IN frame' = [frame EXCEPT !.pc = "running",
                               !.func = [present |-> TRUE,
                                         body |-> IF MatchFails(funcStr)
                                                    THEN <<>>
                                                    ELSE MatchBody(funcStr),
                                         args |-> ParamNames(funcStr)]]
          ELSE frame' = [frame EXCEPT !.pc = "running"]
    /\ UNCHANGED <<build, _FUNC, _status, _error, promises, workers, notified, ctor, dec>>

\* if (me._FUNC) { func = {}; func.body = ...match(...)[1]; func.args = ... }
\* null[1] throws a TypeError when the source does not match
StartDecompose ==
    /\ frame.kind = "start" /\ frame.pc = "decompose"
    /\ IF Truthy(_FUNC[frame.t])
          THEN LET funcStr == FuncSources[_FUNC[frame.t].n]
               IN IF MatchFails(funcStr)
                    THEN frame' = [frame EXCEPT !.pc = "catch",
                                      !.err = ErrorObj("TypeError", frame.c)]
                    ELSE frame' = [frame EXCEPT !.pc = "running",
                                      !.func = [present |-> TRUE,
                                                body |-> MatchBody(funcStr),
                                                args |-> ParamNames(funcStr)]]
          ELSE frame' = [frame EXCEPT !.pc = "running"]
    /\ UNCHANGED <<build, _FUNC, _status, _error, promises, workers, notified, ctor, dec>>

\* start() that posts the message without setting Running first
StartRunningSkipped ==
    /\ frame.kind = "start" /\ frame.pc = "running"
    /\ frame' = [frame EXCEPT !.pc = "post"]
    /\ UNCHANGED <<build, _FUNC, _status, _error, promises, workers, notified, ctor, dec>>

\* me.updateStatus(TaskStatus.Running)
StartRunning ==
    /\ frame.kind = "start" /\ frame.pc = "running"
    /\ _status' = updateStatus(frame.t, Running)
    /\ notified' = statusChange(frame.t, Running)
    /\ frame' = [frame EXCEPT !.pc = "post"]
    /\ UNCHANGED <<build, _FUNC, _error, promises, workers, ctor, dec>>

\* worker.postMessage(JSON.stringify({func, state})), which may throw;
\* start() returns once the message is posted
StartPost ==
    /\ frame.kind = "start" /\ frame.pc = "post"
    /\ \/ /\ workers' = [workers EXCEPT ![frame.w] =
                  [@ EXCEPT !.sent = TRUE, !.posts = @ + 1,
                            !.msg = [func |-> frame.func,
                                     state |-> promises[frame.c].state]]]
          /\ frame' = Idle
       \/ /\ frame' = [frame EXCEPT !.pc = "catch",
                            !.err = ErrorObj("postMessage", frame.c)]
          /\ UNCHANGED workers
    /\ UNCHANGED <<build, _FUNC, _status, _error, promises, notified, ctor, dec>>

\* a catch block that reports the error and leaves the status as it is
StartCatchKeepsStatus ==
    /\ frame.kind = "start" /\ frame.pc = "catch"
    /\ frame' = [frame EXCEPT !.pc = "completed"]
    /\ UNCHANGED <<build, _FUNC, _status, _error, promises, workers, notified, ctor, dec>>

\* catch (e) { me.updateStatus(TaskStatus.Faulted); ...
StartCatch ==
    /\ frame.kind = "start" /\ frame.pc = "catch"
    /\ _status' = updateStatus(frame.t, Faulted)
    /\ notified' = statusChange(frame.t, Faulted)
    /\ frame' = [frame EXCEPT !.pc = "completed"]
    /\ UNCHANGED <<build, _FUNC, _error, promises, workers, ctor, dec>>

\* a completed() that reads the state of the latest start() call instead of
\* the state its own call closed over
CompletedLatestState ==
    /\ frame.pc \in {"completed", "rejected"}
    /\ LET state == promises[Len(promises)].state
       IN IF Truthy(frame.err)
            THEN promises' = Settle(frame.c, "rejected",
                     [data |-> Undefined, error |-> frame.err, state |-> state])
            ELSE promises' = Settle(frame.c, "resolved",
                     [data |-> frame.data, error |-> Undefined, state |-> state])
    /\ _error' = updateError(frame.t, frame.err)
    /\ notified' = errorChange(frame.t, frame.err)
    /\ frame' = Idle
    /\ UNCHANGED <<build, _FUNC, _status, workers, ctor, dec>>

\* completed(err, data): reject or resolve, then me.updateError(err); every
\* handler returns right after it
Completed ==
    /\ frame.pc \in {"completed", "rejected"}
    /\ LET state == promises[frame.c].state
       IN IF Truthy(frame.err)
            THEN promises' = Settle(frame.c, "rejected",
                     [data |-> Undefined, error |-> frame.err, state |-> state])
            ELSE promises' = Settle(frame.c, "resolved",
                     [data |-> frame.data, error |-> Undefined, state |-> state])
    /\ _error' = updateError(frame.t, frame.err)
    /\ notified' = errorChange(frame.t, frame.err)
    /\ frame' = Idle
    /\ UNCHANGED <<build, _FUNC, _status, workers, ctor, dec>>

(* ----------------------- the worker (plugin/worker.js) ---------------- *)
\* a worker that has its message and still owes its one outcome
Owes(w) ==
    /\ workers[w].sent
    /\ workers[w].delivered = 0
    /\ workers[w].onmessage /\ workers[w].onerror

\* the worker posts its result: the JSON text of what the function returned,
\* nothing when it returned no data or when the message carried no function
\* (`replied` and `reply` remember what the worker posted, `posts` counts the
\* postMessage calls made on it)
WorkerPostsResult(w, p) ==
    /\ frame.kind = "idle"
    /\ Owes(w)
    /\ Run(workers[w].msg).kind = "result"
    /\ p = JSONstringify(Run(workers[w].msg).value)
    /\ workers' = [workers EXCEPT ![w].delivered = @ + 1,
                                  ![w].replied = "result", ![w].reply = p]
    /\ frame' = [Idle EXCEPT !.kind = "onmessage", !.pc = "terminate",
                             !.t = workers[w].task, !.c = workers[w].call,
                             !.w = w, !.err = Null, !.data = p]
    /\ UNCHANGED <<build, _FUNC, _status, _error, promises, notified, ctor, dec>>

\* the function threw: the worker reports the error instead
WorkerPostsError(w, e) ==
    /\ frame.kind = "idle"
    /\ Owes(w)
    /\ Run(workers[w].msg).kind = "error"
    /\ e = Run(workers[w].msg).value
    /\ workers' = [workers EXCEPT ![w].delivered = @ + 1,
                                  ![w].replied = "error", ![w].reply = e]
    /\ frame' = [Idle EXCEPT !.kind = "onerror", !.pc = "faulted",
                             !.t = workers[w].task, !.c = workers[w].call,
                             !.w = w, !.err = e]
    /\ UNCHANGED <<build, _FUNC, _status, _error, promises, notified, ctor, dec>>

\* a worker that reported an error and was not terminated emits the error
\* event once more
WorkerRepeatsError(w) ==
    /\ frame.kind = "idle"
    /\ workers[w].replied = "error"
    /\ ~workers[w].terminated
    /\ workers[w].delivered < MaxEvents
    /\ workers' = [workers EXCEPT ![w].delivered = @ + 1]
    /\ frame' = [Idle EXCEPT !.kind = "onerror", !.pc = "faulted",
                             !.t = workers[w].task, !.c = workers[w].call,
                             !.w = w, !.err = workers[w].reply]
    /\ UNCHANGED <<build, _FUNC, _status, _error, promises, notified, ctor, dec>>

(* --------------------------- worker.onmessage ------------------------- *)
\* worker.terminate()
OnMessageTerminate ==
    /\ frame.kind = "onmessage" /\ frame.pc = "terminate"
    /\ workers' = [workers EXCEPT ![frame.w].terminated = TRUE]
    /\ frame' = [frame EXCEPT !.pc = IF build = "ts" THEN "parse" ELSE "ran"]
    /\ UNCHANGED <<build, _FUNC, _status, _error, promises, notified, ctor, dec>>

\* index.ts: let result = msg.data; if (result) { result = JSON.parse(result); }
\* index.js: JSON.parse(msg.data), evaluated as the argument of completed();
\*           a SyntaxError leaves the callback before completed() is called
OnMessageParse ==
    /\ frame.kind = "onmessage" /\ frame.pc = "parse"
    /\ IF build = "ts"
          THEN frame' = [frame EXCEPT !.pc = "ran",
                            !.data = IF Truthy(@) THEN JSONparse(@) ELSE @]
          ELSE IF JSONparseThrows(frame.data)
                 THEN frame' = Idle
                 ELSE frame' = [frame EXCEPT !.pc = "completed",
                                   !.data = JSONparse(@)]
    /\ UNCHANGED <<build, _FUNC, _status, _error, promises, workers, notified, ctor, dec>>

\* me.updateStatus(TaskStatus.RanToCompletion)
OnMessageRan ==
    /\ frame.kind = "onmessage" /\ frame.pc = "ran"
    /\ _status' = updateStatus(frame.t, RanToCompletion)
    /\ notified' = statusChange(frame.t, RanToCompletion)
    /\ frame' = [frame EXCEPT !.pc = IF build = "ts" THEN "completed" ELSE "parse"]
    /\ UNCHANGED <<build, _FUNC, _error, promises, workers, ctor, dec>>

(* ---------------------------- worker.onerror -------------------------- *)
\* me.updateStatus(TaskStatus.Faulted)
OnErrorFaulted ==
    /\ frame.kind = "onerror" /\ frame.pc = "faulted"
    /\ _status' = updateStatus(frame.t, Faulted)
    /\ notified' = statusChange(frame.t, Faulted)
    /\ frame' = [frame EXCEPT !.pc = "completed"]
    /\ UNCHANGED <<build, _FUNC, _error, promises, workers, ctor, dec>>

(* ---------------------------- specifications -------------------------- *)
\* the next statement of the handler that is executing
HandlerStep ==
    \/ StartGuard
    \/ StartWaiting
    \/ StartNewWorker
    \/ StartSetOnMessage
    \/ StartSetOnError
    \/ StartDecompose
    \/ StartRunning
    \/ StartPost
    \/ StartCatch
    \/ Completed
    \/ OnMessageTerminate
    \/ OnMessageParse
    \/ OnMessageRan
    \/ OnErrorFaulted

\* a worker delivers its outcome
WorkerStep ==
    \/ \E w \in 1..Len(workers), p \in Payloads : WorkerPostsResult(w, p)
    \/ \E w \in 1..Len(workers), e \in ErrVals : WorkerPostsError(w, e)

Next ==
    \/ \E t \in Tasks, f \in FuncVals : NewTask(t, f)
    \/ \E t \in Tasks, s \in StateVals : StartCall(t, s)
    \/ HandlerStep
    \/ WorkerStep

Spec == Init /\ [][Next]_vars

\* The event loop runs every handler to its end, and a worker that was sent
\* its message delivers its outcome.
FairSpec == Spec /\ WF_vars(HandlerStep) /\ WF_vars(WorkerStep)

\* Two Task objects side by side: the application constructs and starts
\* both, and their workers run concurrently.
TwoTasks == 1..2

InitPair ==
    /\ build \in {"ts", "js"}
    /\ _FUNC = [t \in TwoTasks |-> Undefined]
    /\ _status = [t \in TwoTasks |-> NoStatus]
    /\ _error = [t \in TwoTasks |-> Undefined]
    /\ promises = <<>>
    /\ workers = <<>>
    /\ frame = Idle
    /\ notified = [t \in TwoTasks |-> <<>>]
    /\ ctor = [t \in TwoTasks |-> NotCalled]
    /\ dec = NoDec

NextPair ==
    \/ \E t \in TwoTasks, f \in FuncVals : NewTask(t, f)
    \/ \E t \in TwoTasks, s \in StateVals : StartCall(t, s)
    \/ HandlerStep
    \/ WorkerStep

SpecPair == InitPair /\ [][NextPair]_vars

\* A worker that is left running after its error may emit again: the
\* callbacks of a start() call that has already settled run once more.
NextLate ==
    \/ Next
    \/ \E w \in 1..Len(workers) : WorkerRepeatsError(w)

SpecLate == Init /\ [][NextLate]_vars

(* --------------------- the decomposition, on its own ------------------ *)
\* A function declaration: how each parameter is written (`decos`), the
\* white space of the header (`gap`) and the body.  Its source text is what
\* '' + func yields for it.
ParamIds == <<"ctx", "b", "c", "d">>

\* parameter `name` written plainly, between spaces, with a default value,
\* with a default value that holds a comma, after a block comment, or before
\* a line comment
Decorations == {"plain", "space", "default", "list", "block", "line"}

ParamText(name, deco) ==
    CASE deco = "plain" -> <<name>>
      [] deco = "space" -> <<" ", name, " ">>
      [] deco = "default" -> <<name, " ", "=", " ", "1">>
      [] deco = "list" -> <<name, "=", "[", "1", ",", "2", "]">>
      [] deco = "block" -> <<"/*", "n", "*/", name>>
      [] OTHER -> <<name, " ", "//", "n", "\n">>

\* the parameter list: the parameters from the i-th on, separated by commas
RECURSIVE ParamsText(_, _)
ParamsText(decos, i) ==
    IF i > Len(decos) THEN <<>>
    ELSE ParamText(ParamIds[i], decos[i])
            \o (IF i < Len(decos) THEN <<",">> ELSE <<>>)
            \o ParamsText(decos, i + 1)

\* bodies: empty, the one of function(ctx){ return ctx.state + 1; }, and one
\* with nested braces
Bodies ==
    { <<>>,
      <<" ", "return", " ", "ctx", ".state", "+", "1", ";", " ">>,
      <<"if", "(", "ctx", ")", "{", "return", ";", "}">> }

Declarations ==
    {[decos |-> d, gap |-> g, body |-> b] :
        d \in UNION {[1..n -> Decorations] : n \in 0..MaxParams},
        g \in {<<>>, <<" ">>}, b \in Bodies}

\* '' + func
SourceOf(decl) ==
    <<"function">> \o decl.gap \o <<"(">> \o ParamsText(decl.decos, 1)
        \o <<")">> \o decl.gap \o <<"{">> \o decl.body \o <<"}">>

\* the names the declaration declares, in order
NamesOf(decl) == [i \in 1..Len(decl.decos) |-> ParamIds[i]]

InitDec ==
    /\ build \in {"ts", "js"}
    /\ _FUNC = [t \in Tasks |-> Undefined]
    /\ _status = [t \in Tasks |-> NoStatus]
    /\ _error = [t \in Tasks |-> Undefined]
    /\ promises = <<>>
    /\ workers = <<>>
    /\ frame = Idle
    /\ notified = [t \in Tasks |-> <<>>]
    /\ ctor = [t \in Tasks |-> NotCalled]
    /\ dec \in {[NoDec EXCEPT !.pc = "match", !.decl = d, !.src = SourceOf(d)] :
                    d \in Declarations}

\* one call of the chain: dec.text becomes `text`, and `pc` is the next call
DecStep(pc, text) ==
    /\ dec' = [dec EXCEPT !.pc = pc, !.text = text]
    /\ UNCHANGED <<build, _FUNC, _status, _error, promises, workers, frame,
                   notified, ctor>>

\* func.body = funcStr.match(/function[^{]+\{([\s\S]*)\}$/)[1]
DecMatch ==
    /\ dec.pc = "match"
    /\ IF MatchFails(dec.src)
          THEN dec' = [dec EXCEPT !.pc = "threw"]
          ELSE dec' = [dec EXCEPT !.pc = "lineComments", !.text = dec.src,
                                  !.body = MatchBody(dec.src)]
    /\ UNCHANGED <<build, _FUNC, _status, _error, promises, workers, frame,
                   notified, ctor>>

\* funcStr.replace(/[/][/].*$/mg, '')
DecLineComments ==
    dec.pc = "lineComments"
        /\ DecStep("whiteSpace", StripLineComments(dec.text, FALSE))

\* .replace(/\s+/g, '')
DecWhiteSpace ==
    dec.pc = "whiteSpace" /\ DecStep("blockComments", StripWhiteSpace(dec.text))

\* .replace(/[/][*][^/*]*[*][/]/g, '')
DecBlockComments ==
    dec.pc = "blockComments" /\ DecStep("split", StripBlockComments(dec.text))

\* .split('){', 1)[0]
DecBeforeBody ==
    dec.pc = "split" /\ DecStep("paren", BeforeBody(dec.text))

\* .replace(/^[^(]*[(]/, '')
DecAfterParen ==
    dec.pc = "paren" /\ DecStep("defaults", AfterParen(dec.text))

\* .replace(/=[^,]+/g, '')
DecStripDefaults ==
    dec.pc = "defaults" /\ DecStep("commas", StripDefaults(dec.text, FALSE))

\* .split(',')
DecSplitCommas ==
    /\ dec.pc = "commas"
    /\ dec' = [dec EXCEPT !.pc = "filter", !.args = SplitCommas(dec.text, "")]
    /\ UNCHANGED <<build, _FUNC, _status, _error, promises, workers, frame,
                   notified, ctor>>

\* .filter(x => x)
DecFilter ==
    /\ dec.pc = "filter"
    /\ dec' = [dec EXCEPT !.pc = "done",
                          !.args = SelectSeq(dec.args, LAMBDA x : x # "")]
    /\ UNCHANGED <<build, _FUNC, _status, _error, promises, workers, frame,
                   notified, ctor>>

NextDec ==
    \/ DecMatch
    \/ DecLineComments
    \/ DecWhiteSpace
    \/ DecBlockComments
    \/ DecBeforeBody
    \/ DecAfterParen
    \/ DecStripDefaults
    \/ DecSplitCommas
    \/ DecFilter

SpecDec == InitDec /\ [][NextDec]_vars

(* ------------------------------- claims ------------------------------- *)
\* call c is no longer executing start(): it has returned to its caller
Returned(c) == c <= Len(promises) /\ ~(frame.kind = "start" /\ frame.c = c)

\* the Error the guard constructs for call c
ConflictError(c) == ErrorObj(promises[c].at, c)

\* C1: a start(s) call that finds the Task in WaitingToRun or Running has,
\* when it returns, rejected its promise with {error: the state-conflict
\* Error, state: s}, and no statement of it changes the status.
C1_ConflictRejected ==
    /\ [](\A c \in 1..Len(promises) :
            promises[c].at \in {WaitingToRun, Running} /\ Returned(c)
            => /\ promises[c].settled = "rejected"
               /\ promises[c].value =
                    [data |-> Undefined, error |-> ConflictError(c),
                     state |-> promises[c].state])
    /\ [][frame.kind = "start"
            /\ promises[frame.c].at \in {WaitingToRun, Running}
          => _status' = _status]_vars

\* a call made while the Task was Running has been rejected, and the Task is
\* still Running
C1_Witness ==
    \E c \in 1..Len(promises) :
        /\ promises[c].at = Running /\ Returned(c)
        /\ promises[c].settled = "rejected"
        /\ _status[promises[c].task] = Running

\* the workers of task t that were sent their message and owe their outcome
InFlight(t) ==
    {w \in 1..Len(workers) :
        workers[w].task = t /\ workers[w].sent /\ workers[w].delivered = 0}

\* C2: at most one execution of a Task is in flight at any time.
C2_OneInFlight == \A t \in Tasks : Cardinality(InFlight(t)) <= 1

\* a start() was turned away while the Task's worker had its message and
\* owed the outcome: still one execution in flight, and one worker in all
C2_Witness ==
    \E t \in Tasks, c \in 1..Len(promises) :
        /\ Cardinality(InFlight(t)) = 1
        /\ Len(workers) = 1
        /\ promises[c].task = t /\ promises[c].at = Running /\ Returned(c)

\* the handler that is executing returns with this step
Returns == frame.kind # "idle" /\ frame'.kind = "idle"

\* the handler that is executing is the catch block of start()
InCatch == frame.kind = "start" /\ frame.pc \in {"catch", "completed"}

\* C3: when the success callback returns, status is RanToCompletion and
\* error is absent; when the failure callback or the catch path of start()
\* returns, status is Faulted and error is the error reported or thrown.
C3_Claim ==
    [][/\ frame.kind = "onmessage" /\ Returns
          => /\ _status'[frame.t] = RanToCompletion
             /\ isNullOrUndefined(_error'[frame.t])
       /\ (frame.kind = "onerror" \/ InCatch) /\ Returns
          => /\ _status'[frame.t] = Faulted
             /\ _error'[frame.t] = frame.err]_vars

\* nothing is executing and no worker owes an outcome
Quiescent ==
    /\ frame.kind = "idle"
    /\ \A w \in 1..Len(workers) : ~Owes(w)

\* C4: every start() call returns its promise (no statement of it leaves the
\* executor by an exception); once every worker that was sent a message has
\* delivered its one outcome, every promise is settled, by exactly one call
\* of completed(), and no Task is left in WaitingToRun or Running.
C4_Claim ==
    Quiescent =>
        /\ \A c \in 1..Len(promises) :
              /\ promises[c].settled # "pending"
              /\ promises[c].completions = 1
        /\ \A t \in Tasks : _status[t] \notin {WaitingToRun, Running}

\* the status changes of the lifecycle table, with the handler that makes them
TableStep(from, to, kind) ==
    \/ from \in {Created, Faulted, RanToCompletion} /\ to = WaitingToRun
         /\ kind = "start"
    \/ from = WaitingToRun /\ to = Running /\ kind = "start"
    \/ from = Running /\ to = RanToCompletion /\ kind = "onmessage"
    \/ from = Running /\ to = Faulted /\ kind \in {"onerror", "start"}

\* what the catch block of start() does when the throw comes before
\* updateStatus(Running)
EarlyFault(from, to, kind) ==
    from = WaitingToRun /\ to = Faulted /\ kind = "start"

\* C5 as claimed: every status change of a constructed Task is a row of the
\* lifecycle table.
C5_Claim ==
    [][\A t \in Tasks :
          _status[t] # NoStatus /\ _status'[t] # _status[t]
          => frame.t = t /\ TableStep(_status[t], _status'[t], frame.kind)]_vars

\* C5, amended: every status change of a constructed Task is a row of the
\* lifecycle table, or WaitingToRun to Faulted, made by the catch block of
\* start() when constructing the channel or decomposing the function throws.
C5_Lifecycle ==
    [][\A t \in Tasks :
          _status[t] # NoStatus /\ _status'[t] # _status[t]
          => /\ frame.t = t
             /\ \/ TableStep(_status[t], _status'[t], frame.kind)
                \/ EarlyFault(_status[t], _status'[t], frame.kind)]_vars

\* the catch block has just taken a Task from WaitingToRun to Faulted: the
\* function's source did not match, so no message was posted
C5_Witness ==
    /\ frame.kind = "start" /\ frame.pc = "completed"
    /\ frame.w # 0 /\ ~workers[frame.w].sent
    /\ frame.err = ErrorObj("TypeError", frame.c)
    /\ _status[frame.t] = Faulted

\* call c is a restart: it found the Task in Faulted or RanToCompletion
Restart(c) == promises[c].at \in {Faulted, RanToCompletion}

\* the handler that is executing belongs to a restart
InRestart == frame.kind # "idle" /\ Restart(frame.c)

\* the guard lets a restart through, its channel is a new one, and when its
\* callback returns the status is the one of the new outcome
RestartAccepted ==
    /\ [][InRestart /\ frame.pc = "guard" => frame'.pc = "waiting"]_vars
    /\ [](InRestart /\ frame.kind = "start" /\ frame.w # 0
            => /\ frame.w = Len(workers)
               /\ workers[frame.w].call = frame.c
               /\ workers[frame.w].delivered = 0
               /\ ~workers[frame.w].terminated)
    /\ [][InRestart /\ Returns /\ frame.kind = "onmessage"
            => _status'[frame.t] = RanToCompletion]_vars
    /\ [][InRestart /\ Returns /\ frame.kind = "onerror"
            => _status'[frame.t] = Faulted]_vars

\* C6 as claimed: a restart is accepted, gets a fresh channel, and takes the
\* status through WaitingToRun, then Running, then RanToCompletion or Faulted.
C6_Claim ==
    /\ RestartAccepted
    /\ [][InRestart /\ frame.pc = "newWorker" => Len(workers') = Len(workers) + 1]_vars
    /\ [][InRestart /\ _status'[frame.t] # _status[frame.t]
            => TableStep(_status[frame.t], _status'[frame.t], frame.kind)]_vars

\* C6, amended: a restart is accepted, gets a fresh channel unless
\* constructing it throws, and takes the status through WaitingToRun, then
\* either Running and then RanToCompletion or Faulted, or straight to Faulted
\* when constructing the channel or decomposing the function throws; the
\* final status is the one of the new outcome.
C6_Restart ==
    /\ RestartAccepted
    /\ [][InRestart /\ frame.pc = "newWorker"
            => \/ Len(workers') = Len(workers) + 1
               \/ frame'.pc = "catch" /\ workers' = workers]_vars
    /\ [][InRestart /\ _status'[frame.t] # _status[frame.t]
            => \/ TableStep(_status[frame.t], _status'[frame.t], frame.kind)
               \/ EarlyFault(_status[frame.t], _status'[frame.t], frame.kind)]_vars

\* a Task that had faulted was started again and ran to completion
C6_Witness ==
    \E c \in 1..Len(promises) :
        /\ promises[c].at = Faulted
        /\ promises[c].settled = "resolved"
        /\ _status[promises[c].task] = RanToCompletion

\* C7: when the failure callback or the catch block of start() returns, for
\* whatever error value it was given, status is Faulted, that value is the
\* Task's error, and the promise of the call is rejected with {error, state}.
C7_Claim ==
    [][(frame.kind = "onerror" \/ InCatch) /\ Returns
       => /\ _status'[frame.t] = Faulted
          /\ _error'[frame.t] = frame.err
          /\ promises'[frame.c].settled = "rejected"
          /\ promises'[frame.c].value =
                [data |-> Undefined, error |-> frame.err,
                 state |-> promises[frame.c].state]]_vars

\* C8: a statement gives _error a value that is not absent only in a handler
\* that has just taken the status to Faulted, and every handler that takes
\* the status to Faulted leaves that error in _error.
C8_Claim ==
    /\ [][\A t \in Tasks :
            _error'[t] # _error[t] /\ ~isNullOrUndefined(_error'[t])
            => /\ frame.t = t
               /\ frame.kind = "onerror" \/ InCatch
               /\ _status[t] = Faulted]_vars
    /\ [][(frame.kind = "onerror" \/ InCatch) /\ Returns
            => _error'[frame.t] = frame.err]_vars

\* worker w has delivered its response and its callback has returned
Answered(w) ==
    /\ workers[w].delivered > 0
    /\ ~(frame.kind \in {"onmessage", "onerror"} /\ frame.w = w)

\* C9: every worker is terminated once it has delivered its response,
\* result or error.
C9_Claim ==
    \A w \in 1..Len(workers) : Answered(w) => workers[w].terminated

\* the workers of task t that were constructed and not terminated
Alive(t) ==
    {w \in 1..Len(workers) : workers[w].task = t /\ ~workers[w].terminated}

\* C10: at most one worker of a Task is alive at any time.
C10_Claim == \A t \in Tasks : Cardinality(Alive(t)) <= 1

\* the success callback that is executing was handed an empty payload
EmptyPayload ==
    /\ frame.kind = "onmessage"
    /\ workers[frame.w].replied = "result"
    /\ workers[frame.w].reply = Undefined

\* C11: when the success callback was handed an empty payload and returns,
\* the promise of its start() call is resolved with absent data and the
\* state of the call, status is RanToCompletion and error is absent.
C11_Claim ==
    [][EmptyPayload /\ Returns
          => /\ promises'[frame.c].settled = "resolved"
             /\ promises'[frame.c].value =
                    [data |-> Undefined, error |-> Undefined,
                     state |-> promises[frame.c].state]
             /\ _status'[frame.t] = RanToCompletion
             /\ isNullOrUndefined(_error'[frame.t])]_vars

\* the workers that call c constructed
WorkersOf(c) == {w \in 1..Len(workers) : workers[w].call = c}

\* the settlement of call c comes from what the call itself threw or from
\* what its own worker posted
OwnOutcome(c) ==
    LET v == promises[c].value
    IN \/ /\ promises[c].settled = "rejected"
          /\ v.error.t = "error" /\ v.error.n = c
       \/ \E w \in WorkersOf(c) :
             /\ workers[w].replied = "error"
             /\ \/ promises[c].settled = "rejected" /\ v.error = workers[w].reply
                \/ promises[c].settled = "resolved" /\ v.data = Undefined
       \/ \E w \in WorkersOf(c) :
             /\ workers[w].replied = "result"
             /\ promises[c].settled = "resolved"
             /\ v.data = IF workers[w].reply.t = "json"
                           THEN JSONparse(workers[w].reply) ELSE Undefined

\* C12: a settled promise, resolved or rejected, carries the state its own
\* start() call was given, and its outcome is the call's own synchronous
\* error or what the call's own worker posted; a promise changes only while
\* a handler of its own call is executing.
C12_OwnStateAndOutcome ==
    /\ [](\A c \in 1..Len(promises) :
             promises[c].settled # "pending"
                => promises[c].value.state = promises[c].state /\ OwnOutcome(c))
    /\ [][\A c \in 1..Len(promises) :
             promises'[c] # promises[c] => frame.c = c]_vars

\* two Tasks were running at once with different states, and the one started
\* later was resolved by its worker while the other's promise was pending
C12_Witness ==
    \E c \in 1..Len(promises), d \in 1..Len(promises) :
        /\ c < d
        /\ promises[c].task # promises[d].task
        /\ promises[c].state # promises[d].state
        /\ promises[c].settled = "pending" /\ _status[promises[c].task] = Running
        /\ promises[d].settled = "resolved" /\ promises[d].value.data # Undefined

\* the status notifications of Task t, in order
StatusNotified(t) == SelectSeq(notified[t], LAMBDA n : n.name = "status")

\* the last k entries of a sequence (all of it when it is shorter)
LastOf(seq, k) ==
    SubSeq(seq, IF Len(seq) > k THEN Len(seq) - k + 1 ELSE 1, Len(seq))

\* C13: a step that changes a Task's status emits exactly one status
\* notification, carrying the new value, and a step that leaves the status as
\* it was (also by writing the value it already has) emits none; when the
\* success callback returns, the status notifications of its execution are
\* WaitingToRun, Running, RanToCompletion, in that order.
C13_StatusNotifications ==
    /\ [][\A t \in DOMAIN _status :
             StatusNotified(t)' =
                IF _status'[t] # _status[t]
                  THEN Append(StatusNotified(t),
                              Notification("status", Str(_status'[t])))
                  ELSE StatusNotified(t)]_vars
    /\ [][\A t \in DOMAIN _status :
             frame.kind = "onmessage" /\ frame.t = t /\ Returns
                => LastOf(StatusNotified(t)', 3) =
                      << Notification("status", Str(WaitingToRun)),
                         Notification("status", Str(Running)),
                         Notification("status", Str(RanToCompletion)) >>]_vars

\* a late error event wrote Faulted over Faulted: the Task has notified
\* Created, WaitingToRun, Running and Faulted, each once
C13_Witness ==
    \E t \in DOMAIN _status, w \in 1..Len(workers) :
        /\ workers[w].task = t /\ workers[w].delivered = MaxEvents
        /\ frame.kind = "idle" /\ _status[t] = Faulted
        /\ Len(StatusNotified(t)) = 4

\* the error notifications of Task t, in order
ErrorNotified(t) == SelectSeq(notified[t], LAMBDA n : n.name = "error")

\* the error field went from absent to an error value, from an error value
\* to absent, or from one error value to a different one
ErrorChanged(old, new) ==
    \/ isNullOrUndefined(old) # isNullOrUndefined(new)
    \/ ~isNullOrUndefined(old) /\ ~isNullOrUndefined(new) /\ old # new

\* C14: a step emits one error notification, carrying the new value, exactly
\* when it changes the Task's error between absent and an error value or
\* between two different error values; a start() that succeeds on a Task
\* whose error is absent emits none.
C14_Claim ==
    /\ [][\A t \in DOMAIN _error :
             ErrorNotified(t)' =
                IF ErrorChanged(_error[t], _error'[t])
                  THEN Append(ErrorNotified(t),
                              Notification("error", _error'[t]))
                  ELSE ErrorNotified(t)]_vars
    /\ [][\A t \in DOMAIN _error :
             /\ frame.kind = "onmessage" /\ frame.t = t /\ Returns
             /\ isNullOrUndefined(_error[t])
             => ErrorNotified(t)' = ErrorNotified(t)]_vars

\* a constructor argument that is present and is not a function
NotInvocable(f) == ~isNullOrUndefined(f) /\ f.t # "function"

\* C15: `new Task(func)` with a func that is present and not a function
\* throws and leaves no Task: no status is set, nothing is notified, no
\* start() is made and no worker exists for it; with a function or with an
\* absent func it returns a Task whose status is Created, whose error is
\* absent and which holds func.
C15_Construction ==
    /\ [](\A t \in DOMAIN ctor :
             ctor[t].called =>
                IF NotInvocable(ctor[t].arg)
                  THEN /\ ctor[t].threw = Str("'func' must be a function!")
                       /\ _status[t] = NoStatus
                       /\ notified[t] = <<>>
                       /\ \A c \in 1..Len(promises) : promises[c].task # t
                       /\ \A w \in 1..Len(workers) : workers[w].task # t
                  ELSE /\ ctor[t].threw = Undefined
                       /\ _status[t] \in TaskStatus
                       /\ _FUNC[t] = ctor[t].arg)
    /\ [][\A t \in DOMAIN ctor :
             ~ctor[t].called /\ ctor'[t].called /\ ~NotInvocable(ctor'[t].arg)
                => /\ _status'[t] = Created
                   /\ isNullOrUndefined(_error'[t])]_vars

\* one construction threw, and another returned a Task (without a function,
\* or with the function of the demo) that has not been started
C15_Witness ==
    \E t \in DOMAIN ctor, u \in DOMAIN ctor :
        /\ ctor[t].called /\ ctor[t].threw # Undefined
        /\ ctor[u].called /\ ctor[u].arg \in {Undefined} \cup {Func(1)}
        /\ _status[u] = Created

\* the sources of FuncSources that are ES5 function literals and return:
\* the demo's, the one without parameters, the one that returns no data
Returning == {1, 3, 6}

\* what the function of source i returns when applied to {state: s}
Meaning(i, s) ==
    CASE i = 1 -> Num(1000 + 200 * s.n + 7)
      [] i = 3 -> Num(42)
      [] OTHER -> Undefined

\* call c was made on a fresh Task that holds the function of source i, and
\* its worker has answered
FreshAnswered(c, i) ==
    /\ promises[c].at = Created
    /\ _FUNC[promises[c].task] = Func(i)
    /\ \E w \in WorkersOf(c) : Answered(w)

\* C16 as stated: when a fresh Task holds a function literal that returns,
\* and the worker of its start(s) call has answered, the promise is resolved
\* with data equal to the function applied to {state: s} and with state s;
\* the demo's function gives 6007 for state 30.
C16_Claim ==
    \A c \in 1..Len(promises), i \in Returning :
        FreshAnswered(c, i)
           => /\ promises[c].settled = "resolved"
              /\ promises[c].value =
                    [data |-> Meaning(i, promises[c].state),
                     error |-> Undefined, state |-> promises[c].state]
              /\ Meaning(1, Num(30)) = Num(6007)

\* C16, amended: under the same conditions the promise is resolved whenever
\* the function returns a value, it is never rejected, and once settled it
\* carries the function applied to {state: s} and the state s; the demo's
\* function gives 7007 for state 30.
C16_RoundTrip ==
    \A c \in 1..Len(promises), i \in Returning :
        FreshAnswered(c, i)
           => /\ Meaning(i, promises[c].state) # Undefined
                 => promises[c].settled = "resolved"
              /\ promises[c].settled # "rejected"
              /\ promises[c].settled = "resolved"
                 => promises[c].value =
                       [data |-> Meaning(i, promises[c].state),
                        error |-> Undefined, state |-> promises[c].state]
              /\ Meaning(1, Num(30)) = Num(7007)

\* the demo: start(30) on a fresh Task resolved with data 7007, state 30
C16_Witness ==
    \E c \in 1..Len(promises) :
        /\ FreshAnswered(c, 1)
        /\ promises[c].settled = "resolved"
        /\ promises[c].value =
              [data |-> Num(7007), error |-> Undefined, state |-> Num(30)]

\* Task t holds a function whose source the regular expression of start()
\* does not match
Unrecognized(t) ==
    /\ _FUNC[t].t = "function"
    /\ MatchFails(FuncSources[IF _FUNC[t].t = "function" THEN _FUNC[t].n ELSE 1])

\* C17: when the source of the held function does not match the function
\* literal shape, every start(s) that has returned is rejected with an error
\* and the state s, start() leaves the status at Faulted, and no worker of
\* the Task is ever sent a message.
C17_Unrecognized ==
    /\ [](\A c \in 1..Len(promises) :
             Unrecognized(promises[c].task) /\ Returned(c)
                => /\ promises[c].settled = "rejected"
                   /\ Truthy(promises[c].value.error)
                   /\ promises[c].value.data = Undefined
                   /\ promises[c].value.state = promises[c].state)
    /\ [](\A w \in 1..Len(workers) :
             Unrecognized(workers[w].task) => ~workers[w].sent)
    /\ [][\A t \in DOMAIN _status :
             Unrecognized(t) /\ frame.kind = "start" /\ frame.t = t /\ Returns
                => _status'[t] = Faulted]_vars

\* start() on a Task that holds an arrow function has returned: its worker
\* was constructed and the decomposition threw the TypeError
C17_Witness ==
    \E c \in 1..Len(promises), w \in 1..Len(workers) :
        /\ Unrecognized(promises[c].task) /\ Returned(c)
        /\ workers[w].call = c
        /\ promises[c].value.error = ErrorObj("TypeError", c)
        /\ _status[promises[c].task] = Faulted

\* the text of function(ctx){ return ctx.state + 1; }
RoundTripSource ==
    <<"function", "(", "ctx", ")", "{", " ", "return", " ", "ctx", ".state",
      "+", "1", ";", " ", "}">>

\* C18: once the decomposition of a function source is done, its parameter
\* names are exactly the declared names, in declaration order, without their
\* defaults and without empty entries, and its body is the text between the
\* first opening brace after the header and the final closing brace; for
\* function(ctx){ return ctx.state + 1; } the names are [ctx].
C18_Claim ==
    /\ dec.pc = "done"
          => /\ dec.args = NamesOf(dec.decl)
             /\ dec.body = dec.decl.body
    /\ ParamNames(RoundTripSource) = <<"ctx">>

\* the function of FuncSources that declares no parameter
Parameterless == Func(3)

\* the start() calls made on a Task that holds the parameterless function
\* and resolved
ResolvedParameterless ==
    {c \in 1..Len(promises) :
        /\ _FUNC[promises[c].task] = Parameterless
        /\ promises[c].settled = "resolved"}

\* C19: the message sent for a function without parameters carries an empty
\* list of parameter names, and every start() of it that the worker has
\* answered is resolved with the same data (42), whatever state it was given.
C19_ZeroParameters ==
    /\ \A w \in 1..Len(workers) :
          workers[w].sent /\ _FUNC[workers[w].task] = Parameterless
             => /\ workers[w].msg.func.present
                /\ workers[w].msg.func.args = <<>>
    /\ \A c \in 1..Len(promises) :
          /\ _FUNC[promises[c].task] = Parameterless
          /\ \E w \in WorkersOf(c) : Answered(w)
          => c \in ResolvedParameterless
    /\ \A c \in ResolvedParameterless, d \in ResolvedParameterless :
          /\ promises[c].value.data = promises[d].value.data
          /\ promises[c].value.data = Num(42)

\* the parameterless function was started twice, with different states, and
\* both calls resolved
C19_Witness ==
    \E c \in ResolvedParameterless, d \in ResolvedParameterless :
        promises[c].state # promises[d].state

\* Task t was constructed without a function
WithoutFunction(t) == ctor[t].called /\ isNullOrUndefined(_FUNC[t]) /\ _status[t] # NoStatus

\* C20: a worker of a Task without a function is sent a message whose func is
\* absent (nothing was decomposed) and whose state is the state of the
\* start() call; when the success callback of such a call returns, status is
\* RanToCompletion and the promise is resolved with absent data.
C20_Claim ==
    /\ [](\A w \in 1..Len(workers) :
             WithoutFunction(workers[w].task) /\ workers[w].sent
                => workers[w].msg =
                      [func |-> NoFunc, state |-> promises[workers[w].call].state])
    /\ [][\A t \in DOMAIN _status :
             /\ WithoutFunction(t)
             /\ frame.kind = "onmessage" /\ frame.t = t /\ Returns
             => /\ _status'[t] = RanToCompletion
                /\ promises'[frame.c].settled = "resolved"
                /\ promises'[frame.c].value.data = Undefined]_vars

\* the Task whose start() call or worker callback takes this step (0: none)
Actor == IF frame.kind # "idle" THEN frame.t ELSE frame'.t

\* C21: a step of a start() call or of a worker callback of one Task leaves
\* the status, the error, the notifications and the workers of every other
\* Task as they were, and constructs no worker for another Task.
C21_Independent ==
    [][\A u \in DOMAIN _status :
          Actor # 0 /\ Actor # u
             => /\ _status'[u] = _status[u]
                /\ _error'[u] = _error[u]
                /\ notified'[u] = notified[u]
                /\ \A w \in 1..Len(workers) :
                      workers[w].task = u => workers'[w] = workers[w]
                /\ \A w \in (Len(workers) + 1)..Len(workers') :
                      workers'[w].task # u]_vars

\* both Tasks are Running, each with its own worker owing its outcome
C21_Witness ==
    \E t \in DOMAIN _status, u \in DOMAIN _status :
        /\ t # u
        /\ _status[t] = Running /\ _status[u] = Running
        /\ InFlight(t) # {} /\ InFlight(u) # {}
        /\ frame.kind = "idle"

\* worker w exists and has both of its callbacks
Registered(w) == w > 0 /\ workers[IF w > 0 THEN w ELSE 1].onmessage
                       /\ workers[IF w > 0 THEN w ELSE 1].onerror

\* the start() call that is executing has decomposed the function its Task
\* holds, if it holds one
Decomposed == Truthy(_FUNC[frame.t]) => frame.func.present

\* C22: in a start() call, the worker is constructed when the status is
\* WaitingToRun; onmessage and then onerror are registered on it before the
\* function is decomposed; the status becomes Running after both callbacks
\* are registered and the function is decomposed; the message is posted when
\* the status is Running; and no worker is posted more than one message.
C22_StepOrder ==
    /\ [][frame.kind = "start" =>
            /\ Len(workers') > Len(workers)
                  => /\ _status[frame.t] = WaitingToRun
                     /\ frame.w = 0
                     /\ Len(workers') = Len(workers) + 1
                     /\ ~workers'[Len(workers')].onmessage
                     /\ ~workers'[Len(workers')].onerror
                     /\ workers'[Len(workers')].posts = 0
            /\ frame.w > 0
                  => /\ workers'[frame.w].onmessage # workers[frame.w].onmessage
                        => /\ _status[frame.t] = WaitingToRun
                           /\ ~workers[frame.w].onerror
                           /\ ~frame.func.present
                     /\ workers'[frame.w].onerror # workers[frame.w].onerror
                        => /\ _status[frame.t] = WaitingToRun
                           /\ workers[frame.w].onmessage
                           /\ ~frame.func.present
                     /\ workers'[frame.w].posts # workers[frame.w].posts
                        => /\ _status[frame.t] = Running
                           /\ Registered(frame.w)
                           /\ Decomposed
                           /\ workers'[frame.w].msg.func = frame.func
            /\ frame'.kind = "start" /\ frame'.func # frame.func
                  => /\ _status[frame.t] = WaitingToRun
                     /\ Registered(frame.w)
            /\ _status'[frame.t] # _status[frame.t] /\ _status'[frame.t] = Running
                  => /\ _status[frame.t] = WaitingToRun
                     /\ Registered(frame.w)
                     /\ Decomposed
                     /\ workers[frame.w].posts = 0]_vars
    /\ [][\A w \in 1..Len(workers) :
            workers'[w].posts # workers[w].posts
               => frame.kind = "start" /\ frame.w = w]_vars
    /\ [](\A w \in 1..Len(workers) : workers[w].posts <= 1)

\* a start() call has gone through all of its steps: its worker has both
\* callbacks and the decomposed function of the demo in its one message,
\* and the Task is Running
C22_Witness ==
    \E w \in 1..Len(workers) :
        /\ frame.kind = "idle"
        /\ Registered(w) /\ workers[w].posts = 1
        /\ workers[w].msg.func.present /\ workers[w].msg.func.args = <<"ctx">>
        /\ _status[workers[w].task] = Running

\* call c found its Task WaitingToRun or Running: the guard turns it away
TurnedAway(c) == promises[c].at \in {WaitingToRun, Running}

\* C23: no step of a start() call that the guard turns away constructs a
\* worker, posts a message, or changes a worker, the held function or the
\* status; no worker ever belongs to such a call.
C23_RejectedStartFrame ==
    /\ [][frame.kind = "start" /\ TurnedAway(frame.c)
             => /\ workers' = workers
                /\ _FUNC' = _FUNC
                /\ _status' = _status]_vars
    /\ [](\A c \in 1..Len(promises) : TurnedAway(c) => WorkersOf(c) = {})

\* a start() was turned away while the Task was Running, and afterwards the
\* worker of the execution in flight delivered its result: the first call is
\* resolved with the data of the demo's function
C23_Witness ==
    \E c \in 1..Len(promises), d \in 1..Len(promises) :
        /\ c < d
        /\ promises[c].task = promises[d].task
        /\ TurnedAway(d) /\ promises[d].settled = "rejected"
        /\ promises[c].settled = "resolved"
        /\ promises[c].value.data = Meaning(1, promises[c].state)
        /\ _FUNC[promises[c].task] = Func(1)
        /\ Len(workers) = 1 /\ workers[1].posts = 1

\* C24: a Task is WaitingToRun only while a start() call of it is executing;
\* when a start() call that passed the guard returns, the status is Running
\* or Faulted; and a status other than Created is never followed by Created.
C24_TransientWaiting ==
    /\ [](\A t \in DOMAIN _status :
             _status[t] = WaitingToRun => frame.kind = "start" /\ frame.t = t)
    /\ [][\A t \in DOMAIN _status :
             /\ frame.kind = "start" /\ frame.t = t /\ Returns
             /\ ~TurnedAway(frame.c)
             => _status'[t] \in {Running, Faulted}]_vars
    /\ [][\A t \in DOMAIN _status :
             _status[t] \in TaskStatus \ {Created} => _status'[t] # Created]_vars

\* a Task that faulted inside start(), before it was Running, was started
\* again, and that call has returned with the Task Running
C24_Witness ==
    \E c \in 1..Len(promises), d \in 1..Len(promises) :
        /\ c < d /\ promises[c].task = promises[d].task
        /\ promises[c].settled = "rejected" /\ WorkersOf(c) = {}
        /\ promises[d].at = Faulted /\ Returned(d)
        /\ _status[promises[d].task] = Running

\* the callback that is executing belongs to a start() call whose promise
\* was settled before the callback began
LateCallback ==
    /\ frame.kind \in {"onmessage", "onerror"}
    /\ promises[frame.c].settled # "pending"

\* C25: no step of a worker callback that fires after the promise of its own
\* start() call was settled changes the status or the error of the Task.
C25_Claim ==
    [][\A t \in DOMAIN _status :
          LateCallback /\ frame.t = t
             => /\ _status'[t] = _status[t]
                /\ _error'[t] = _error[t]]_vars
====
